---- MODULE Spec2Model ----
(***************************************************************************)
(* Model of plugins/wan2gp-configuration/plugin.py: the Configuration tab  *)
(* of WAN2GP.  The state is the shared server_config mapping, the JSON     *)
(* file behind it, the loader's checkpoint path list and what the two save *)
(* buttons leave behind (message, notification, quit).                     *)
(*                                                                         *)
(* Texts and paths are sequences of one-character strings.  A form value   *)
(* other than the checkpoint text is the pair <<component, pick>>: the     *)
(* pick-th option of that component, so values of different components     *)
(* never coincide.  A configuration is a function from key to value.       *)
(***************************************************************************)
EXTENDS Integers, Sequences, FiniteSets, TLC

VARIABLES lock_config, server_config, file, fl_paths,
          submitted, last, msg, info, quit, saves, writes

vars == << lock_config, server_config, file, fl_paths,
           submitted, last, msg, info, quit, saves, writes >>

\* ---- bounds ------------------------------------------------------------
MaxLen == 3
MaxSaves == 2
NumChoices == 2

\* ---- characters and texts ----------------------------------------------
LF == "\n"
CR == "\r"
Alphabet == {"a", "b", " ", LF, CR}

\* str.strip() with no argument removes these (those of the alphabet, and tab)
IsSpace(c) == c \in {" ", LF, CR, "\t"}

Texts(n) == UNION { [1..m -> Alphabet] : m \in 0..n }

\* the checkpoint texts tried in sequences of clicks: empty, one folder,
\* two folders, whitespace only
SeqTexts == { <<>>, <<"a">>, <<"b", LF, "a">>, <<" ", CR>> }

\* fl.default_checkpoints_paths: the host's default folders
DefaultPaths == << <<"c", "k">>, <<".">> >>

\* folders chosen in an earlier run
PriorPaths == << <<"m">> >>

\* ---- string functions of Python, as the code uses them ------------------
RECURSIVE lstrip(_)
lstrip(s) ==
    IF s = <<>> THEN <<>>
    ELSE IF IsSpace(Head(s)) THEN lstrip(Tail(s)) ELSE s

RECURSIVE rstrip(_)
rstrip(s) ==
    IF s = <<>> THEN <<>>
    ELSE IF IsSpace(s[Len(s)]) THEN rstrip(SubSeq(s, 1, Len(s) - 1)) ELSE s

strip(s) == rstrip(lstrip(s))

\* s.replace("\r", "")
RECURSIVE replace_cr(_)
replace_cr(s) ==
    IF s = <<>> THEN <<>>
    ELSE IF Head(s) = CR THEN replace_cr(Tail(s))
         ELSE <<Head(s)>> \o replace_cr(Tail(s))

\* s.split("\n"): the pieces between line feeds, empty pieces included
RECURSIVE split_acc(_, _)
split_acc(s, cur) ==
    IF s = <<>> THEN <<cur>>
    ELSE IF Head(s) = LF THEN <<cur>> \o split_acc(Tail(s), <<>>)
         ELSE split_acc(Tail(s), Append(cur, Head(s)))

split(s) == split_acc(s, <<>>)

\* [path.strip() for path in paths if len(path.strip()) > 0]
RECURSIVE strip_nonblank(_)
strip_nonblank(paths) ==
    IF paths = <<>> THEN <<>>
    ELSE IF Len(strip(Head(paths))) > 0
         THEN <<strip(Head(paths))>> \o strip_nonblank(Tail(paths))
         ELSE strip_nonblank(Tail(paths))

\* lines 199-203 with the fallback to the default list left out
NormalizePathsNoDefault(text) ==
    strip_nonblank(split(replace_cr(text)))

\* lines 199-203 with the per-line strip left out
RECURSIVE drop_blank(_)
drop_blank(paths) ==
    IF paths = <<>> THEN <<>>
    ELSE IF Len(strip(Head(paths))) > 0
         THEN <<Head(paths)>> \o drop_blank(Tail(paths))
         ELSE drop_blank(Tail(paths))

NormalizePathsNoStrip(text) ==
    IF Len(strip(text)) = 0 THEN DefaultPaths
    ELSE drop_blank(split(replace_cr(text)))

\* lines 199-203: the checkpoint list computed from the text box
NormalizePaths(text) ==
    IF Len(strip(text)) = 0 THEN DefaultPaths
    ELSE strip_nonblank(split(replace_cr(text)))

\* ---- wiring of the form -------------------------------------------------
\* the inputs list with attention_choice and compile_choice exchanged
inputs_swapped ==
    << "state", "transformer_types_choices", "model_hierarchy_type_choice",
       "fit_canvas_choice", "compile_choice", "preload_model_policy_choice",
       "clear_file_list_choice", "display_stats_choice", "max_frames_multiplier_choice",
       "checkpoints_paths_choice", "UI_theme_choice", "queue_color_scheme_choice",
       "quantization_choice", "transformer_dtype_policy_choice", "mixed_precision_choice",
       "text_encoder_quantization_choice", "VAE_precision_choice", "attention_choice",
       "depth_anything_v2_variant_choice", "vae_config_choice", "boost_choice",
       "profile_choice", "preload_in_VRAM_choice", "enhancer_enabled_choice",
       "enhancer_mode_choice", "mmaudio_enabled_choice", "video_output_codec_choice",
       "image_output_codec_choice", "audio_output_codec_choice", "metadata_choice",
       "embed_source_images_choice", "video_save_path_choice", "image_save_path_choice",
       "notification_sound_enabled_choice", "notification_sound_volume_choice", "resolution" >>

\* post_ui_setup, lines 258-274: the components handed to both click
\* handlers, in order
inputs ==
    << "state", "transformer_types_choices", "model_hierarchy_type_choice",
       "fit_canvas_choice", "attention_choice", "preload_model_policy_choice",
       "clear_file_list_choice", "display_stats_choice", "max_frames_multiplier_choice",
       "checkpoints_paths_choice", "UI_theme_choice", "queue_color_scheme_choice",
       "quantization_choice", "transformer_dtype_policy_choice", "mixed_precision_choice",
       "text_encoder_quantization_choice", "VAE_precision_choice", "compile_choice",
       "depth_anything_v2_variant_choice", "vae_config_choice", "boost_choice",
       "profile_choice", "preload_in_VRAM_choice", "enhancer_enabled_choice",
       "enhancer_mode_choice", "mmaudio_enabled_choice", "video_output_codec_choice",
       "image_output_codec_choice", "audio_output_codec_choice", "metadata_choice",
       "embed_source_images_choice", "video_save_path_choice", "image_save_path_choice",
       "notification_sound_enabled_choice", "notification_sound_volume_choice", "resolution" >>

\* lines 182-197: the names *args is unpacked into, in order
params ==
    << "transformer_types_choices", "model_hierarchy_type_choice", "fit_canvas_choice",
       "attention_choice", "preload_model_policy_choice", "clear_file_list_choice",
       "display_stats_choice", "max_frames_multiplier_choice", "checkpoints_paths_choice",
       "UI_theme_choice", "queue_color_scheme_choice", "quantization_choice",
       "transformer_dtype_policy_choice", "mixed_precision_choice", "text_encoder_quantization_choice",
       "VAE_precision_choice", "compile_choice", "depth_anything_v2_variant_choice",
       "vae_config_choice", "boost_choice", "profile_choice",
       "preload_in_VRAM_choice", "enhancer_enabled_choice", "enhancer_mode_choice",
       "mmaudio_enabled_choice", "video_output_codec_choice", "image_output_codec_choice",
       "audio_output_codec_choice", "metadata_choice", "embed_source_images_choice",
       "save_path_choice", "image_save_path_choice", "notification_sound_enabled_choice",
       "notification_sound_volume_choice", "last_resolution_choice" >>

\* lines 207-233: key of the record and the local variable stored under it
KeyParam ==
    "attention_mode" :> "attention_choice" @@ "transformer_types" :> "transformer_types_choices"
    @@ "text_encoder_quantization" :> "text_encoder_quantization_choice" @@ "save_path" :> "save_path_choice"
    @@ "image_save_path" :> "image_save_path_choice" @@ "compile" :> "compile_choice"
    @@ "profile" :> "profile_choice" @@ "vae_config" :> "vae_config_choice"
    @@ "vae_precision" :> "VAE_precision_choice" @@ "mixed_precision" :> "mixed_precision_choice"
    @@ "metadata_type" :> "metadata_choice" @@ "transformer_quantization" :> "quantization_choice"
    @@ "transformer_dtype_policy" :> "transformer_dtype_policy_choice" @@ "boost" :> "boost_choice"
    @@ "clear_file_list" :> "clear_file_list_choice" @@ "preload_model_policy" :> "preload_model_policy_choice"
    @@ "UI_theme" :> "UI_theme_choice" @@ "fit_canvas" :> "fit_canvas_choice"
    @@ "enhancer_enabled" :> "enhancer_enabled_choice" @@ "enhancer_mode" :> "enhancer_mode_choice"
    @@ "mmaudio_enabled" :> "mmaudio_enabled_choice" @@ "preload_in_VRAM" :> "preload_in_VRAM_choice"
    @@ "depth_anything_v2_variant" :> "depth_anything_v2_variant_choice" @@ "notification_sound_enabled" :> "notification_sound_enabled_choice"
    @@ "notification_sound_volume" :> "notification_sound_volume_choice" @@ "max_frames_multiplier" :> "max_frames_multiplier_choice"
    @@ "display_stats" :> "display_stats_choice" @@ "video_output_codec" :> "video_output_codec_choice"
    @@ "image_output_codec" :> "image_output_codec_choice" @@ "audio_output_codec" :> "audio_output_codec_choice"
    @@ "model_hierarchy_type" :> "model_hierarchy_type_choice" @@ "queue_color_scheme" :> "queue_color_scheme_choice"
    @@ "embed_source_images" :> "embed_source_images_choice" @@ "last_resolution_choice" :> "last_resolution_choice"

\* lines 228-232: key of the record and the key of state stored under it
KeyState ==
    "last_model_type" :> "model_type" @@ "last_model_per_family" :> "last_model_per_family"
    @@ "last_model_per_type" :> "last_model_per_type" @@ "last_advanced_choice" :> "advanced"
    @@ "last_resolution_per_group" :> "last_resolution_per_group"

\* the gradio state dictionary, as the host keeps it
StateValue ==
    [model_type |-> <<"state", "model_type">>,
     last_model_per_family |-> <<"state", "last_model_per_family">>,
     last_model_per_type |-> <<"state", "last_model_per_type">>,
     advanced |-> <<"state", "advanced">>,
     last_resolution_per_group |-> <<"state", "last_resolution_per_group">>]

\* current value of a component when the button is clicked
ComponentValue(c, text, pick) ==
    IF c = "state" THEN StateValue
    ELSE IF c = "checkpoints_paths_choice" THEN text
    ELSE <<c, pick>>

\* gradio passes the components' values positionally
ClickArgs(text, pick) ==
    [i \in 1..Len(inputs) |-> ComponentValue(inputs[i], text, pick)]

\* position of each name in the unpacking
ParamIndex ==
    [p \in {params[i] : i \in 1..Len(params)} |->
        CHOOSE i \in 1..Len(params) : params[i] = p]

\* the local variable bound by the tuple unpacking of *args
Local(args, p) == args[ParamIndex[p]]

\* ---- _save_changes ------------------------------------------------------
LockedNotice == "Configuration is locked by command-line arguments."
SavedNotice == "Settings saved. Please restart the application for all changes to take effect."
RestartInfo == "Settings saved. Restarting application..."
NoMessage == ""

EmptyConfig == [k \in {} |-> <<>>]

EarlyReturnNever(lock) == FALSE

\* line 179: the guard before anything else is done
EarlyReturn(lock) == lock

\* lines 207-233: the dictionary literal
new_server_config(state, args, checkpoints_paths) ==
    [key \in (DOMAIN KeyParam) \cup (DOMAIN KeyState) \cup {"checkpoints_paths"} |->
        IF key = "checkpoints_paths" THEN checkpoints_paths
        ELSE IF key \in DOMAIN KeyState THEN state[KeyState[key]]
        ELSE Local(args, KeyParam[key])]

CopyEnabledPluginsNever(new, old) == new

\* lines 235-236
CopyEnabledPlugins(new, old) ==
    IF "enabled_plugins" \in DOMAIN old
    THEN ("enabled_plugins" :> old["enabled_plugins"]) @@ new
    ELSE new

\* lines 238-240
LockedOverride(lock, new, old) ==
    IF lock
    THEN [key \in DOMAIN new |->
            IF key \in {"attention_mode", "compile"} /\ key \in DOMAIN old
            THEN old[key] ELSE new[key]]
    ELSE new

UpdateConfigReplace(old, new) == new

\* line 245: dict.update
UpdateConfig(old, new) ==
    [key \in (DOMAIN old) \cup (DOMAIN new) |->
        IF key \in DOMAIN new THEN new[key] ELSE old[key]]

Unwritten == [status |-> "unwritten", content |-> EmptyConfig]
Truncated == [status |-> "truncated", content |-> EmptyConfig]

Outcomes == {"ok", "open_fails", "write_fails"}

\* lines 242-243: open(..., "w") truncates, write stores the JSON text.
\* The outcome is the environment's: success, open raising, write raising.
WriteFile(old, new, outcome) ==
    IF outcome = "ok" THEN [status |-> "written", content |-> new]
    ELSE IF outcome = "open_fails" THEN old
    ELSE Truncated

\* The whole of _save_changes(state, *args) as a function of the state it
\* reads; the result names what it returns and what it leaves behind.
save_changes(lock, cfg, paths, f, state, args, outcome) ==
    IF EarlyReturn(lock)
    THEN [ret |-> LockedNotice, raised |-> FALSE, server_config |-> cfg,
          fl_paths |-> paths, file |-> f, opens |-> 0, written |-> FALSE]
    ELSE IF Len(args) # Len(params)
    THEN [ret |-> NoMessage, raised |-> TRUE, server_config |-> cfg,
          fl_paths |-> paths, file |-> f, opens |-> 0, written |-> FALSE]
    ELSE
      LET checkpoints_paths ==
              NormalizePaths(Local(args, "checkpoints_paths_choice"))
          new == LockedOverride(lock,
                    CopyEnabledPlugins(
                        new_server_config(state, args, checkpoints_paths), cfg),
                    cfg)
      IN IF outcome = "ok"
         THEN [ret |-> SavedNotice, raised |-> FALSE,
               server_config |-> UpdateConfig(cfg, new),
               fl_paths |-> checkpoints_paths,
               file |-> WriteFile(f, new, outcome),
               opens |-> 1, written |-> TRUE]
         ELSE [ret |-> NoMessage, raised |-> TRUE,
               server_config |-> cfg,
               fl_paths |-> checkpoints_paths,
               file |-> WriteFile(f, new, outcome),
               opens |-> 1, written |-> FALSE]

\* ---- initial state ------------------------------------------------------
FormKeys == (DOMAIN KeyParam) \cup (DOMAIN KeyState) \cup {"checkpoints_paths"}

\* a configuration persisted by an earlier run
BaseConfig ==
    [key \in FormKeys |->
        IF key = "checkpoints_paths" THEN PriorPaths ELSE <<"prior", key>>]

PluginsEntry == "enabled_plugins" :> <<"prior", "enabled_plugins">>
\* a key kept by another part of the host, unknown to this form
OtherEntry == "other_setting" :> <<"prior", "other_setting">>

InitConfigs ==
    { EmptyConfig, BaseConfig, PluginsEntry @@ BaseConfig,
      OtherEntry @@ BaseConfig, PluginsEntry @@ OtherEntry @@ BaseConfig }

NoClick ==
    [action |-> "none", written |-> FALSE, raised |-> FALSE, opens |-> 0,
     ret |-> NoMessage]

Init ==
    /\ lock_config \in BOOLEAN
    /\ server_config \in InitConfigs
    /\ file = Unwritten
    /\ fl_paths = IF "checkpoints_paths" \in DOMAIN server_config
                  THEN server_config["checkpoints_paths"] ELSE DefaultPaths
    /\ submitted = [text |-> <<>>, pick |-> 0]
    /\ last = NoClick
    /\ msg = NoMessage
    /\ info = <<>>
    /\ quit = FALSE
    /\ saves = 0
    /\ writes = 0

\* ---- the two buttons ----------------------------------------------------
\* apply_btn.click(fn=self._save_changes, inputs=inputs, outputs=[self.msg])
ClickSave(text, pick, outcome) ==
    \E args \in {ClickArgs(text, pick)} :
    \E r \in {save_changes(lock_config, server_config, fl_paths, file,
                          args[1], Tail(args), outcome)} :
       /\ ~quit
       /\ server_config' = r.server_config
       /\ file' = r.file
       /\ fl_paths' = r.fl_paths
       /\ submitted' = [text |-> text, pick |-> pick]
       /\ last' = [action |-> "save", written |-> r.written,
                   raised |-> r.raised, opens |-> r.opens, ret |-> r.ret]
       /\ msg' = IF r.raised THEN msg ELSE r.ret
       /\ saves' = saves + 1
       /\ writes' = writes + r.opens
       /\ UNCHANGED << lock_config, info, quit >>

\* apply_and_restart_btn.click(fn=self._save_and_restart, inputs=inputs)
\* _save_and_restart: _save_changes, then gr.Info, then quit_application;
\* an exception of _save_changes ends the handler before the other two.
ClickSaveAndRestart(text, pick, outcome) ==
    \E args \in {ClickArgs(text, pick)} :
    \E r \in {save_changes(lock_config, server_config, fl_paths, file,
                          args[1], Tail(args), outcome)} :
       /\ ~quit
       /\ server_config' = r.server_config
       /\ file' = r.file
       /\ fl_paths' = r.fl_paths
       /\ submitted' = [text |-> text, pick |-> pick]
       /\ last' = [action |-> "save_and_restart", written |-> r.written,
                   raised |-> r.raised, opens |-> r.opens, ret |-> r.ret]
       /\ info' = IF r.raised THEN info ELSE Append(info, RestartInfo)
       /\ quit' = IF r.raised THEN quit ELSE TRUE
       /\ saves' = saves + 1
       /\ writes' = writes + r.opens
       /\ UNCHANGED << lock_config, msg >>

\* sequences of clicks with the checkpoint texts of SeqTexts
Next ==
    /\ saves < MaxSaves
    /\ \E text \in SeqTexts, pick \in 1..NumChoices, outcome \in Outcomes :
          \/ ClickSave(text, pick, outcome)
          \/ ClickSaveAndRestart(text, pick, outcome)

Spec == Init /\ [][Next]_vars

\* the first click after start, with every checkpoint text up to MaxLen
NextPaths ==
    /\ last.action = "none"
    /\ \E text \in Texts(MaxLen), pick \in 1..NumChoices, outcome \in Outcomes :
          \/ ClickSave(text, pick, outcome)
          \/ ClickSaveAndRestart(text, pick, outcome)

SpecPaths == Init /\ [][NextPaths]_vars

\* ---- properties ---------------------------------------------------------
ClickStep == saves' # saves

Whitespace == {" ", LF, CR, "\t"}

Blank(text) == \A i \in 1..Len(text) : text[i] \in Whitespace

\* C1: while lock_config is set, a call of _save_changes returns the locked
\* notice and leaves the file, the in-memory configuration and the loader's
\* checkpoint path list as they were; nothing is written.
C1_LockedSaveChangesNothing ==
    [][(lock_config /\ ClickStep) =>
          /\ last'.ret = LockedNotice
          /\ ~last'.raised
          /\ last'.opens = 0
          /\ writes' = writes
          /\ file' = file
          /\ server_config' = server_config
          /\ fl_paths' = fl_paths
          /\ (last'.action = "save" => msg' = LockedNotice)]_vars

C1_Witness ==
    /\ lock_config
    /\ last.action = "save"
    /\ msg = LockedNotice
    /\ submitted.text # <<>>
    /\ "attention_mode" \in DOMAIN server_config
    /\ file = Unwritten

\* C2: a save made while editing is locked, with attention_mode and compile
\* in the configuration, persists a record that keeps the previous values of
\* these two keys.
C2_LockedFieldsPersisted ==
    [][(/\ ClickStep
        /\ lock_config
        /\ {"attention_mode", "compile"} \subseteq DOMAIN server_config) =>
          /\ last'.written
          /\ file'.status = "written"
          /\ file'.content["attention_mode"] = server_config["attention_mode"]
          /\ file'.content["compile"] = server_config["compile"]]_vars

Keys40 ==
    { "attention_mode", "transformer_types", "text_encoder_quantization", "save_path",
      "image_save_path", "compile", "profile", "vae_config",
      "vae_precision", "mixed_precision", "metadata_type", "transformer_quantization",
      "transformer_dtype_policy", "boost", "clear_file_list", "preload_model_policy",
      "UI_theme", "fit_canvas", "enhancer_enabled", "enhancer_mode",
      "mmaudio_enabled", "preload_in_VRAM", "depth_anything_v2_variant", "notification_sound_enabled",
      "notification_sound_volume", "max_frames_multiplier", "display_stats", "video_output_codec",
      "image_output_codec", "audio_output_codec", "model_hierarchy_type", "checkpoints_paths",
      "queue_color_scheme", "embed_source_images", "last_model_type", "last_model_per_family",
      "last_model_per_type", "last_advanced_choice", "last_resolution_choice", "last_resolution_per_group" }

\* C3: an unlocked save that completes writes a record whose keys are the
\* forty keys of the form, and enabled_plugins exactly when the in-memory
\* configuration had it before the save.
C3_WrittenKeysFixed ==
    [][ClickStep =>
          /\ (~lock_config /\ ~last'.raised) => last'.written
          /\ last'.written =>
                /\ file'.status = "written"
                /\ Cardinality(Keys40) = 40
                /\ DOMAIN file'.content =
                      Keys40 \cup (IF "enabled_plugins" \in DOMAIN server_config
                                   THEN {"enabled_plugins"} ELSE {})]_vars

C3_Witness ==
    /\ last.written
    /\ saves = 2
    /\ Cardinality(DOMAIN file.content) = 41
    /\ "enabled_plugins" \in DOMAIN file.content

\* C4 as claimed: after a completed save the in-memory configuration is
\* exactly the record written.
C4_ReplacedWholesale ==
    last.written => server_config = file.content

\* C4 amended: a completed save writes the new record and updates the
\* in-memory configuration with it: the two agree on every key of the
\* record, the keys the record lacks keep their values, and the in-memory
\* configuration always agrees with the file last written on that file's keys.
C4_MergedOnSave ==
    [][/\ (ClickStep /\ last'.written) =>
             /\ file'.status = "written"
             /\ DOMAIN server_config' =
                    (DOMAIN server_config) \cup (DOMAIN file'.content)
             /\ \A key \in (DOMAIN server_config) \ (DOMAIN file'.content) :
                    server_config'[key] = server_config[key]
       /\ file'.status = "written" =>
             \A key \in DOMAIN file'.content :
                 /\ key \in DOMAIN server_config'
                 /\ server_config'[key] = file'.content[key]]_vars

C4_Witness ==
    /\ last.written
    /\ "other_setting" \in DOMAIN server_config
    /\ "other_setting" \notin DOMAIN file.content
    /\ server_config["attention_mode"] = file.content["attention_mode"]
    /\ server_config["attention_mode"] # <<"prior", "attention_mode">>

\* C5: on an unlocked save whose checkpoint text is empty or all whitespace,
\* the default list is handed to the loader and, when the file is written,
\* stored under checkpoints_paths.
C5_BlankTextGivesDefault ==
    (last.action # "none" /\ ~lock_config /\ Blank(submitted.text)) =>
        /\ fl_paths = DefaultPaths
        /\ last.written =>
              /\ file.content["checkpoints_paths"] = DefaultPaths
              /\ server_config["checkpoints_paths"] = DefaultPaths

C5_Witness ==
    /\ ~lock_config
    /\ last.written
    /\ Len(submitted.text) = 3
    /\ \E i, j \in 1..3 : submitted.text[i] = LF /\ submitted.text[j] = " "
    /\ Blank(submitted.text)
    /\ "checkpoints_paths" \in DOMAIN server_config
    /\ file.content["checkpoints_paths"] = DefaultPaths
    /\ PriorPaths # DefaultPaths

\* the lines of a text, stated by positions: carriage returns removed, cut
\* at line feeds, each line from its first to its last non-whitespace
\* character, lines without such a character left out
NoCR(text) == SelectSeq(text, LAMBDA c : c # CR)

Cuts(u) == {0, Len(u) + 1} \cup {i \in 1..Len(u) : u[i] = LF}

NextCut(u, b) == CHOOSE x \in Cuts(u) : x > b /\ \A y \in Cuts(u) : y > b => x <= y

Ink(u, b) == {i \in (b + 1)..(NextCut(u, b) - 1) : u[i] \notin Whitespace}

InkedCuts(u) == {b \in Cuts(u) \ {Len(u) + 1} : Ink(u, b) # {}}

Least(S) == CHOOSE x \in S : \A y \in S : x <= y
Greatest(S) == CHOOSE x \in S : \A y \in S : y <= x

ExpectedLines(text) ==
    LET u == NoCR(text)
        B == InkedCuts(u)
    IN [k \in 1..Cardinality(B) |->
          LET b == CHOOSE x \in B : Cardinality({y \in B : y <= x}) = k
          IN SubSeq(u, Least(Ink(u, b)), Greatest(Ink(u, b)))]

\* C6: on an unlocked save whose checkpoint text has a non-whitespace
\* character, the list handed to the loader and persisted is the text's
\* lines, trimmed, blank lines dropped, in order; it is not empty and has no
\* empty or padded entry.
C6_LinesSplitAndTrimmed ==
    (last.action # "none" /\ ~lock_config /\ ~Blank(submitted.text)) =>
        /\ fl_paths = ExpectedLines(submitted.text)
        /\ fl_paths # <<>>
        /\ \A k \in 1..Len(fl_paths) :
              /\ fl_paths[k] # <<>>
              /\ fl_paths[k][1] \notin Whitespace
              /\ fl_paths[k][Len(fl_paths[k])] \notin Whitespace
        /\ last.written =>
              /\ file.content["checkpoints_paths"] = fl_paths
              /\ server_config["checkpoints_paths"] = fl_paths

C6_Witness ==
    /\ ~lock_config
    /\ last.written
    /\ Len(file.content["checkpoints_paths"]) = 2
    /\ file.content["checkpoints_paths"][1] = <<"b">>
    /\ file.content["checkpoints_paths"][2] = <<"a">>

\* the configuration key each component of the form edits
FieldKey ==
    "transformer_types_choices" :> "transformer_types" @@ "model_hierarchy_type_choice" :> "model_hierarchy_type"
    @@ "fit_canvas_choice" :> "fit_canvas" @@ "attention_choice" :> "attention_mode"
    @@ "preload_model_policy_choice" :> "preload_model_policy" @@ "clear_file_list_choice" :> "clear_file_list"
    @@ "display_stats_choice" :> "display_stats" @@ "max_frames_multiplier_choice" :> "max_frames_multiplier"
    @@ "UI_theme_choice" :> "UI_theme" @@ "queue_color_scheme_choice" :> "queue_color_scheme"
    @@ "quantization_choice" :> "transformer_quantization" @@ "transformer_dtype_policy_choice" :> "transformer_dtype_policy"
    @@ "mixed_precision_choice" :> "mixed_precision" @@ "text_encoder_quantization_choice" :> "text_encoder_quantization"
    @@ "VAE_precision_choice" :> "vae_precision" @@ "compile_choice" :> "compile"
    @@ "depth_anything_v2_variant_choice" :> "depth_anything_v2_variant" @@ "vae_config_choice" :> "vae_config"
    @@ "boost_choice" :> "boost" @@ "profile_choice" :> "profile"
    @@ "preload_in_VRAM_choice" :> "preload_in_VRAM" @@ "enhancer_enabled_choice" :> "enhancer_enabled"
    @@ "enhancer_mode_choice" :> "enhancer_mode" @@ "mmaudio_enabled_choice" :> "mmaudio_enabled"
    @@ "video_output_codec_choice" :> "video_output_codec" @@ "image_output_codec_choice" :> "image_output_codec"
    @@ "audio_output_codec_choice" :> "audio_output_codec" @@ "metadata_choice" :> "metadata_type"
    @@ "embed_source_images_choice" :> "embed_source_images" @@ "video_save_path_choice" :> "save_path"
    @@ "image_save_path_choice" :> "image_save_path" @@ "notification_sound_enabled_choice" :> "notification_sound_enabled"
    @@ "notification_sound_volume_choice" :> "notification_sound_volume" @@ "resolution" :> "last_resolution_choice"

\* C7: after a completed save the file and the in-memory configuration hold,
\* under each component's own key, the value that component had at the click.
C7_FieldsStoredUnderOwnKey ==
    last.written =>
        /\ Len(inputs) = Len(params) + 1
        /\ \A c \in DOMAIN FieldKey :
              /\ file.content[FieldKey[c]] = <<c, submitted.pick>>
              /\ server_config[FieldKey[c]] = <<c, submitted.pick>>

C7_Witness ==
    /\ last.written
    /\ saves = 2
    /\ submitted.pick = 2
    /\ file.content["attention_mode"] = <<"attention_choice", 2>>
    /\ file.content["compile"] = <<"compile_choice", 2>>
    /\ server_config["save_path"] = <<"video_save_path_choice", 2>>
    /\ server_config["last_resolution_choice"] = <<"resolution", 2>>

\* C8: a click opens the configuration file for writing at most once, and
\* exactly once when unlocked; the writes made so far are as many as the
\* clicks made while unlocked.
C8_OneWritePerSave ==
    [][/\ ClickStep =>
             /\ writes' - writes = (IF lock_config THEN 0 ELSE 1)
             /\ last'.opens = writes' - writes
       /\ writes' = (IF lock_config' THEN 0 ELSE saves')]_vars

C8_Witness ==
    /\ ~lock_config
    /\ saves = 2
    /\ writes = 2
    /\ last.action = "save_and_restart"

\* C9: the restart notification and quit_application happen only after the
\* configuration file was written in the same click.
C9_RestartOnlyAfterWrite ==
    (quit \/ info # <<>>) => (last.action = "save_and_restart" /\ last.written)

\* C10: a save whose file write raises leaves the in-memory configuration
\* and the loader's checkpoint path list as they were before the save.
C10_FailedWriteChangesNothing ==
    [][(ClickStep /\ last'.raised) =>
          /\ server_config' = server_config
          /\ fl_paths' = fl_paths]_vars

\* C11: once the in-memory configuration holds enabled_plugins, no click
\* changes or removes it there, and every record a click writes to the file
\* holds it with the same value.
C11_EnabledPluginsKept ==
    [][("enabled_plugins" \in DOMAIN server_config) =>
          /\ "enabled_plugins" \in DOMAIN server_config'
          /\ server_config'["enabled_plugins"] = server_config["enabled_plugins"]
          /\ server_config'["enabled_plugins"] = PluginsEntry["enabled_plugins"]
          /\ (ClickStep /\ last'.written) =>
                /\ file'.status = "written"
                /\ "enabled_plugins" \in DOMAIN file'.content
                /\ file'.content["enabled_plugins"] =
                       server_config["enabled_plugins"]
          /\ file'.status = "written" =>
                /\ "enabled_plugins" \in DOMAIN file'.content
                /\ file'.content["enabled_plugins"] =
                       PluginsEntry["enabled_plugins"]]_vars

C11_Witness ==
    /\ saves = 2
    /\ writes = 2
    /\ last.written
    /\ submitted.pick = 2
    /\ "enabled_plugins" \in DOMAIN server_config
    /\ server_config["enabled_plugins"] = PluginsEntry["enabled_plugins"]
    /\ file.content["enabled_plugins"] = PluginsEntry["enabled_plugins"]
    /\ file.content["attention_mode"] = <<"attention_choice", 2>>

====
